---- MODULE Spec2Model ----
(***************************************************************************)
(* Model of uview-miner-stats (src/src/main.rs): one run of `main` loads   *)
(* the block cache, asks the node for its tip, fetches the missing heights *)
(* with a parallel worker pool, merges them after the join, saves the      *)
(* cache, computes the per-miner statistics and writes the report.         *)
(***************************************************************************)
EXTENDS Integers, Sequences, FiniteSets, TLC

(***************************************************************************)
(* Bounds of the model.                                                    *)
(***************************************************************************)
\* number of consecutive runs of the program
MaxRuns == 2
\* the node's tip height lies in 0..MaxTip
MaxTip == 2
\* configured start heights lie in 0..MaxStart
MaxStart == 1
\* longest miner list of a configuration
MaxMiners == 2

(***************************************************************************)
(* Option<T> values (last_tip, scriptPubKey.addresses).                    *)
(***************************************************************************)
None == [some |-> FALSE, v |-> 0]

Some(x) == [some |-> TRUE, v |-> x]

(***************************************************************************)
(* Generic helpers for the iterator expressions of the source.             *)
(***************************************************************************)
Max(a, b) == IF a >= b THEN a ELSE b

\* the smallest element of a non-empty set of integers
MinOf(S) == CHOOSE x \in S : \A y \in S : x <= y

\* the largest element of a non-empty set of integers
MaxOf(S) == CHOOSE x \in S : \A y \in S : x >= y

\* the elements of a set of integers in ascending order (BTreeMap / range
\* order): the lower half of the set, then the upper half
RECURSIVE SortedSeq(_)
SortedSeq(S) ==
  IF S = {} THEN <<>>
  ELSE LET lo == MinOf(S)
           mid == (lo + MaxOf(S)) \div 2
       IN IF lo = MaxOf(S) THEN <<lo>>
          ELSE SortedSeq({x \in S : x <= mid}) \o SortedSeq({x \in S : x > mid})

\* sum of f[x] over x in S, a set of integers, added up half by half
RECURSIVE SumOver(_, _)
SumOver(f, S) ==
  IF S = {} THEN 0
  ELSE LET lo == MinOf(S)
           mid == (lo + MaxOf(S)) \div 2
       IN IF lo = MaxOf(S) THEN f[lo]
          ELSE SumOver(f, {x \in S : x <= mid}) + SumOver(f, {x \in S : x > mid})

\* the elements of a sequence
Range(s) == {s[i] : i \in 1..Len(s)}

(***************************************************************************)
(* The external collaborators of compute_statistics.                       *)
(***************************************************************************)
\* viewing keys a configuration may list; "garbage" does not decode
Keys == {"ufvk1", "ufvk2", "garbage"}

Addrs == {"addrA", "addrB", "addrC"}

\* UnifiedKeyStore::new_from_ufvk succeeds
Decodes(key) == key \in {"ufvk1", "ufvk2"}

\* largest index NonHardenedChildIndex::from_index accepts (2^31 - 1)
IndexLimit == 2147483647

\* Heights are u32, and the model checker's integers end at 2^31 - 1, the largest
\* index from_index accepts.  So that a run can meet a height beyond that
\* index, every height of a behaviour (start_height, tip, cache keys, report
\* fields) is written relative to heightBase: the height h of the model is
\* the height heightBase + h of the program.  heightBase never changes;
\* nothing in the program but from_index and the address derivation looks
\* at the absolute value of a height.
VARIABLES heightBase

\* NonHardenedChildIndex::from_index(height) is Some: heightBase + height < 2^31
FromIndexOk(height) == height >= 0 /\ height <= IndexLimit - heightBase

\* encode_address(generate_transparent_address(index, External)): a fixed
\* deterministic function of (key, index); the two keys never share an
\* address at one index and "addrC" belongs to neither
DeriveAddress(key, height) ==
  LET odd == ((height % 2) + (heightBase % 2)) % 2 = 1
  IN IF key = "ufvk1"
     THEN (IF odd THEN "addrA" ELSE "addrB")
     ELSE (IF odd THEN "addrB" ELSE "addrA")

(***************************************************************************)
(* compute_statistics                                                      *)
(***************************************************************************)
\* (cfg.start_height..=tip_height).collect()
HeightRange(start, tip) == {h \in start..tip : TRUE}

\* mutant of Heights: the range excludes the tip (start..tip)
HeightsExclusive(start, tip) == SortedSeq(HeightRange(start, tip - 1))

Heights(start, tip) == SortedSeq(HeightRange(start, tip))

\* block.outputs.iter().map(|o| o.value_zat).sum()
RECURSIVE OutputSum(_)
OutputSum(outputs) ==
  IF outputs = <<>> THEN 0
  ELSE Head(outputs).value_zat + OutputSum(Tail(outputs))

\* mutant of CoinbaseTotals: every cached block is summed, in the range or not
CoinbaseTotalsAllCached(blocks, heights) ==
  [h \in DOMAIN blocks |-> OutputSum(blocks[h].outputs)]

\* coinbase_totals: the output sum of every height of the range that is cached
CoinbaseTotals(blocks, heights) ==
  [h \in (Range(heights) \cap DOMAIN blocks) |-> OutputSum(blocks[h].outputs)]

\* output.addresses.iter().any(|addr| addr == &encoded)
AddrMatch(output, encoded) ==
  \E i \in 1..Len(output.addresses) : output.addresses[i] = encoded

\* the inner loop over block.outputs accumulating matched_value
RECURSIVE MatchedValue(_, _)
MatchedValue(outputs, encoded) ==
  IF outputs = <<>> THEN 0
  ELSE (IF AddrMatch(Head(outputs), encoded) THEN Head(outputs).value_zat ELSE 0)
       + MatchedValue(Tail(outputs), encoded)

\* mutant of BlockTotalsUpdate: the matched values of a height are added up
BlockTotalsSum(block_totals, height, matched_value) ==
  IF height \in DOMAIN block_totals
  THEN [block_totals EXCEPT ![height] = @ + matched_value]
  ELSE [h \in (DOMAIN block_totals \cup {height}) |->
          IF h = height THEN matched_value ELSE block_totals[h]]

\* block_totals.entry(height).and_modify(|v| *v = max(*v, matched_value))
\*   .or_insert(matched_value)
BlockTotalsUpdate(block_totals, height, matched_value) ==
  IF height \in DOMAIN block_totals
  THEN [block_totals EXCEPT ![height] = Max(@, matched_value)]
  ELSE [h \in (DOMAIN block_totals \cup {height}) |->
          IF h = height THEN matched_value ELSE block_totals[h]]

\* mutant of HeightStep: a height an earlier miner matched is not counted again
HeightStepFirstWins(acc, key, height, blocks) ==
  IF height \notin DOMAIN blocks \/ height \in acc.matched_blocks THEN acc
  ELSE IF ~FromIndexOk(height) THEN acc
  ELSE LET block == blocks[height]
           encoded == DeriveAddress(key, height)
           matched_value == MatchedValue(block.outputs, encoded)
       IN IF matched_value > 0
          THEN [blocks |-> acc.blocks + 1,
                total_value |-> acc.total_value + matched_value,
                matched_blocks |-> acc.matched_blocks \cup {height},
                block_totals |->
                  BlockTotalsUpdate(acc.block_totals, height, matched_value),
                details |-> Append(acc.details,
                  [block_height |-> height,
                   block_hash |-> block.hash,
                   payout_address |-> encoded])]
          ELSE acc

\* mutant of HeightStep: a match is recorded when matched_value >= 0
HeightStepNonNegative(acc, key, height, blocks) ==
  IF height \notin DOMAIN blocks THEN acc
  ELSE IF ~FromIndexOk(height) THEN acc
  ELSE LET block == blocks[height]
           encoded == DeriveAddress(key, height)
           matched_value == MatchedValue(block.outputs, encoded)
       IN IF matched_value >= 0
          THEN [blocks |-> acc.blocks + 1,
                total_value |-> acc.total_value + matched_value,
                matched_blocks |-> acc.matched_blocks \cup {height},
                block_totals |->
                  BlockTotalsUpdate(acc.block_totals, height, matched_value),
                details |-> Append(acc.details,
                  [block_height |-> height,
                   block_hash |-> block.hash,
                   payout_address |-> encoded])]
          ELSE acc

\* mutant of HeightStep: a matched height is counted for the miner but not
\* recorded in the set of matched heights
HeightStepNoInsert(acc, key, height, blocks) ==
  IF height \notin DOMAIN blocks THEN acc
  ELSE IF ~FromIndexOk(height) THEN acc
  ELSE LET block == blocks[height]
           encoded == DeriveAddress(key, height)
           matched_value == MatchedValue(block.outputs, encoded)
       IN IF matched_value > 0
          THEN [blocks |-> acc.blocks + 1,
                total_value |-> acc.total_value + matched_value,
                matched_blocks |-> acc.matched_blocks,
                block_totals |->
                  BlockTotalsUpdate(acc.block_totals, height, matched_value),
                details |-> Append(acc.details,
                  [block_height |-> height,
                   block_hash |-> block.hash,
                   payout_address |-> encoded])]
          ELSE acc

\* mutant of HeightStep: the height is used as a derivation index without
\* the from_index check
HeightStepNoIndexCheck(acc, key, height, blocks) ==
  IF height \notin DOMAIN blocks THEN acc
  ELSE LET block == blocks[height]
           encoded == DeriveAddress(key, height)
           matched_value == MatchedValue(block.outputs, encoded)
       IN IF matched_value > 0
          THEN [blocks |-> acc.blocks + 1,
                total_value |-> acc.total_value + matched_value,
                matched_blocks |-> acc.matched_blocks \cup {height},
                block_totals |->
                  BlockTotalsUpdate(acc.block_totals, height, matched_value),
                details |-> Append(acc.details,
                  [block_height |-> height,
                   block_hash |-> block.hash,
                   payout_address |-> encoded])]
          ELSE acc

\* one iteration of `for &height in &heights` for one miner; acc carries the
\* miner's counters and the two global accumulators
HeightStep(acc, key, height, blocks) ==
  IF height \notin DOMAIN blocks THEN acc
  ELSE IF ~FromIndexOk(height) THEN acc
  ELSE LET block == blocks[height]
           encoded == DeriveAddress(key, height)
           matched_value == MatchedValue(block.outputs, encoded)
       IN IF matched_value > 0
          THEN [blocks |-> acc.blocks + 1,
                total_value |-> acc.total_value + matched_value,
                matched_blocks |-> acc.matched_blocks \cup {height},
                block_totals |->
                  BlockTotalsUpdate(acc.block_totals, height, matched_value),
                details |-> Append(acc.details,
                  [block_height |-> height,
                   block_hash |-> block.hash,
                   payout_address |-> encoded])]
          ELSE acc

\* `for &height in &heights`: the iterations in order, written as the first
\* half of the heights followed by the second half (the counter of the
\* first half is looked at so that it is evaluated before the second starts)
RECURSIVE HeightLoop(_, _, _, _)
HeightLoop(acc, key, heights, blocks) ==
  IF heights = <<>> THEN acc
  ELSE IF Len(heights) = 1 THEN HeightStep(acc, key, heights[1], blocks)
  ELSE LET n == Len(heights) \div 2
           first == HeightLoop(acc, key, SubSeq(heights, 1, n), blocks)
       IN IF first.blocks >= 0
          THEN HeightLoop(first, key, SubSeq(heights, n + 1, Len(heights)), blocks)
          ELSE first

\* round-half-away-from-zero of num / den (den > 0): f64::round
RoundDiv(num, den) ==
  IF num >= 0 THEN (2 * num + den) \div (2 * den)
  ELSE 0 - ((2 * (0 - num) + den) \div (2 * den))

\* zats_to_wec, in hundredths of a WEC: round(zats / 1e8 * 100) / 100.  The
\* amounts of the model are whole multiples of 1e8 zats or lie within 5e5 of
\* zero, where the f64 quotient and product round as the exact ones do.
zats_to_wec(zats) == RoundDiv(zats, 1000000)

\* An f64 greater than zero is [a, b, c, e]: the 53-bit significand
\* a * 2^36 + b * 2^18 + c with 2^16 <= a < 2^17 and b, c < 2^18, and the
\* value significand * 2^e.
Limb == 2^18

\* the next f64 up: the significand plus one, renormalised when it reaches 2^53
F64Inc(x) ==
  IF x.c + 1 < Limb THEN [x EXCEPT !.c = @ + 1]
  ELSE IF x.b + 1 < Limb THEN [x EXCEPT !.b = @ + 1, !.c = 0]
  ELSE IF x.a + 1 < 2^17 THEN [x EXCEPT !.a = @ + 1, !.b = 0, !.c = 0]
  ELSE [a |-> 2^16, b |-> 0, c |-> 0, e |-> x.e + 1]

\* scale n / d into [1, 2): n / d = (r.n / r.d) * 2^r.e
RECURSIVE F64Norm(_, _, _)
F64Norm(n, d, e) ==
  IF n < d THEN F64Norm(2 * n, d, e - 1)
  ELSE IF n >= 2 * d THEN F64Norm(n, 2 * d, e + 1)
  ELSE [n |-> n, d |-> d, e |-> e]

\* (part as f64) / (total as f64) for 0 < part, 0 < total < 2^13: the
\* quotient by long division, rounded to nearest, ties to even
F64Div(part, total) ==
  LET r  == F64Norm(part, total, 0)
      x1 == (r.n - r.d) * 2^16
      x2 == (x1 % r.d) * Limb
      x3 == (x2 % r.d) * Limb
      q  == [a |-> 2^16 + (x1 \div r.d), b |-> x2 \div r.d, c |-> x3 \div r.d,
             e |-> r.e - 52]
      rem == x3 % r.d
  IN IF 2 * rem > r.d \/ (2 * rem = r.d /\ q.c % 2 = 1) THEN F64Inc(q) ELSE q

\* x * 100.0: the exact 60-bit product, shifted back to 53 bits and rounded
\* to nearest, ties to even
F64Mul100(x) ==
  LET p0 == x.c * 100
      p1 == x.b * 100 + (p0 \div Limb)
      p2 == x.a * 100 + (p1 \div Limb)
      b1 == p1 % Limb
      c1 == p0 % Limb
      s  == IF p2 >= 2^23 THEN 7 ELSE 6
      y  == [a |-> p2 \div 2^s,
             b |-> (p2 % 2^s) * 2^(18 - s) + (b1 \div 2^s),
             c |-> (b1 % 2^s) * 2^(18 - s) + (c1 \div 2^s),
             e |-> x.e + s]
      rem == c1 % 2^s
  IN IF rem > 2^(s - 1) \/ (rem = 2^(s - 1) /\ y.c % 2 = 1) THEN F64Inc(y) ELSE y

\* f64::round of an x in [1, 2^16): half away from zero
F64Round(x) ==
  LET k == (0 - x.e) - 36
  IN (x.a \div 2^k) + (IF x.a % 2^k >= 2^(k - 1) THEN 1 ELSE 0)

\* percent_share_blocks, in hundredths of a percent:
\* (((part as f64) / (total as f64)) * 100.0 * 100.0).round() / 100.0
percent_share_blocks(part, total) ==
  IF total = 0 THEN 0
  ELSE IF part = 0 THEN 0
  ELSE F64Round(F64Mul100(F64Mul100(F64Div(part, total))))

\* mutant of MinerLoop: a miner whose key does not decode is left out of the
\* report instead of ending the run
RECURSIVE MinerLoopSkipBadKey(_, _, _, _)
MinerLoopSkipBadKey(st, miners, heights, blocks) ==
  IF miners = <<>> THEN st
  ELSE LET miner == Head(miners) IN
       IF ~Decodes(miner.key)
       THEN MinerLoopSkipBadKey(st, Tail(miners), heights, blocks)
       ELSE LET acc == HeightLoop(
                  [blocks |-> 0, total_value |-> 0, details |-> <<>>,
                   matched_blocks |-> st.matched_blocks,
                   block_totals |-> st.block_totals],
                  miner.key, heights, blocks)
                summary == [label |-> miner.label,
                            matched_blocks |-> acc.blocks,
                            total_value_zat |-> acc.total_value,
                            total_value_wec |-> zats_to_wec(acc.total_value),
                            share_percent |-> 0,
                            detailed_blocks |-> acc.details]
            IN MinerLoopSkipBadKey([ok |-> TRUE,
                          per_miner |-> Append(st.per_miner, summary),
                          matched_blocks |-> acc.matched_blocks,
                          block_totals |-> acc.block_totals],
                         Tail(miners), heights, blocks)

\* `for miner in &cfg.miners`: st carries per_miner, matched_blocks,
\* block_totals and the error flag of the `?` on the key decode
RECURSIVE MinerLoop(_, _, _, _)
MinerLoop(st, miners, heights, blocks) ==
  IF miners = <<>> THEN st
  ELSE LET miner == Head(miners) IN
       IF ~Decodes(miner.key) THEN [st EXCEPT !.ok = FALSE]
       ELSE LET acc == HeightLoop(
                  [blocks |-> 0, total_value |-> 0, details |-> <<>>,
                   matched_blocks |-> st.matched_blocks,
                   block_totals |-> st.block_totals],
                  miner.key, heights, blocks)
                summary == [label |-> miner.label,
                            matched_blocks |-> acc.blocks,
                            total_value_zat |-> acc.total_value,
                            total_value_wec |-> zats_to_wec(acc.total_value),
                            share_percent |-> 0,
                            detailed_blocks |-> acc.details]
            IN MinerLoop([ok |-> TRUE,
                          per_miner |-> Append(st.per_miner, summary),
                          matched_blocks |-> acc.matched_blocks,
                          block_totals |-> acc.block_totals],
                         Tail(miners), heights, blocks)

\* the report value of a run that produced none
NoReport == [ok |-> FALSE]

\* the state of compute_statistics after `for miner in &cfg.miners`
MinerPass(config, blocks, tip) ==
  MinerLoop([ok |-> TRUE, per_miner |-> <<>>,
             matched_blocks |-> {}, block_totals |-> <<>>],
            config.miners, Heights(config.start_height, tip), blocks)

\* mutant of UnmatchedBlocks: the matched heights are not subtracted
UnmatchedBlocksAllHeights(total_blocks, matched_count) == total_blocks

\* total_blocks.saturating_sub(matched_blocks.len() as u32)
UnmatchedBlocks(total_blocks, matched_count) == Max(total_blocks - matched_count, 0)

\* mutant of UnmatchedValue: the filter on matched heights is missing
UnmatchedValueAll(coinbase_totals, matched_blocks) ==
  SumOver(coinbase_totals, DOMAIN coinbase_totals)

\* coinbase_totals.iter().filter(|(h, _)| !matched_blocks.contains(h))
\*   .map(|(_, value)| *value).sum()
UnmatchedValue(coinbase_totals, matched_blocks) ==
  SumOver(coinbase_totals, DOMAIN coinbase_totals \ matched_blocks)

compute_statistics(config, blocks, tip) ==
  LET heights == Heights(config.start_height, tip)
      total_blocks == Len(heights)
      coinbase_totals == CoinbaseTotals(blocks, heights)
      st == MinerPass(config, blocks, tip)
  IN IF ~st.ok THEN NoReport
     ELSE
     LET per_miner == [i \in 1..Len(st.per_miner) |->
            [st.per_miner[i] EXCEPT !.share_percent =
               percent_share_blocks(st.per_miner[i].matched_blocks, total_blocks)]]
         matched_value_zat == SumOver(st.block_totals, DOMAIN st.block_totals)
         unmatched_blocks ==
           UnmatchedBlocks(total_blocks, Cardinality(st.matched_blocks))
         unmatched_value_zat == UnmatchedValue(coinbase_totals, st.matched_blocks)
         total_value_zat == matched_value_zat + unmatched_value_zat
     IN [ok |-> TRUE,
         start_height |-> config.start_height,
         end_height |-> tip,
         total_mined_blocks |-> Cardinality(st.matched_blocks),
         total_value_zat |-> total_value_zat,
         total_value_wec |-> zats_to_wec(total_value_zat),
         miners |-> [i \in 1..Len(per_miner) |->
            [label |-> per_miner[i].label,
             matched_blocks |-> per_miner[i].matched_blocks,
             total_value_zat |-> per_miner[i].total_value_zat,
             total_value_wec |-> per_miner[i].total_value_wec,
             share_percent |-> per_miner[i].share_percent]],
         detailed_miners |-> per_miner,
         unmatched |-> [blocks |-> unmatched_blocks,
                        total_value_zat |-> unmatched_value_zat,
                        total_value_wec |-> zats_to_wec(unmatched_value_zat),
                        share_percent |->
                          percent_share_blocks(unmatched_blocks, total_blocks)]]

\* MinerStatsReport::write: serde skips the `unmatched` field
SerializeReport(r) ==
  [start_height |-> r.start_height,
   end_height |-> r.end_height,
   total_mined_blocks |-> r.total_mined_blocks,
   total_value_zat |-> r.total_value_zat,
   total_value_wec |-> r.total_value_wec,
   miners |-> r.miners,
   detailed_miners |-> r.detailed_miners]

(***************************************************************************)
(* BlockCache and its file.                                                *)
(***************************************************************************)
\* BlockCache::default()
EmptyCache == [last_tip |-> None, blocks |-> <<>>]

\* serde_json::to_vec_pretty(self): the BTreeMap is written entry by entry in
\* ascending key order
Serialize(c) ==
  [last_tip |-> c.last_tip,
   blocks |-> LET keys == SortedSeq(DOMAIN c.blocks)
              IN [i \in 1..Len(keys) |-> [key |-> keys[i], value |-> c.blocks[keys[i]]]]]

\* serde_json::from_slice(&raw): entries are inserted under their keys
Deserialize(d) ==
  [last_tip |-> d.last_tip,
   blocks |-> [h \in {d.blocks[i].key : i \in 1..Len(d.blocks)} |->
                 (CHOOSE e \in Range(d.blocks) : e.key = h).value]]

\* contents of a path: absent, a parseable document, or unparseable bytes
\* (the remains of a write that failed part-way)
AbsentFile == [state |-> "absent", data |-> <<>>]

CorruptFile == [state |-> "corrupt", data |-> <<>>]

OkFile(d) == [state |-> "ok", data |-> d]

(***************************************************************************)
(* The node.                                                               *)
(***************************************************************************)
\* the block hashes getblockhash(height) may return: the node's chain may
\* be on either of two forks when it is asked (a hash is an opaque string in
\* the source; here it names the fork and the height)
Hashes(height) == {<<"X", height>>, <<"Y", height>>}

Vout(value, addresses) == [value_zat |-> value, addresses |-> addresses]

\* the verbose block getblock(hash, 2) returns (the tx list of BlockResult):
\* a coinbase whose outputs pay both miners' addresses at that height, a
\* block without transactions, a coinbase whose output has no address list
\* next to a second transaction, and a coinbase paying "addrA"
NodeBlock(hash) ==
  IF hash[1] = "X"
  THEN (IF hash[2] % 2 = 0
        THEN [tx |-> << [vout |-> << Vout(3, Some(<<"addrB">>)),
                                     Vout(2, Some(<<"addrA", "addrC">>)) >>] >>]
        ELSE [tx |-> <<>>])
  ELSE (IF hash[2] % 2 = 0
        THEN [tx |-> << [vout |-> << Vout(2, None) >>],
                        [vout |-> << Vout(5, Some(<<"addrA">>)) >>] >>]
        ELSE [tx |-> << [vout |-> << Vout(3, Some(<<"addrA">>)) >>] >>])

\* mutant of coinbase_outputs: the outputs of the last transaction are taken
coinbase_outputsLastTx(block) ==
  IF block.tx = <<>> THEN <<>>
  ELSE LET vout == block.tx[Len(block.tx)].vout
       IN [i \in 1..Len(vout) |->
             [value_zat |-> vout[i].value_zat,
              addresses |-> IF vout[i].addresses.some
                            THEN vout[i].addresses.v ELSE <<>>]]

\* BlockResult::coinbase_outputs
coinbase_outputs(block) ==
  IF block.tx = <<>> THEN <<>>
  ELSE LET vout == block.tx[1].vout
       IN [i \in 1..Len(vout) |->
             [value_zat |-> vout[i].value_zat,
              addresses |-> IF vout[i].addresses.some
                            THEN vout[i].addresses.v ELSE <<>>]]

(***************************************************************************)
(* Configurations.                                                         *)
(***************************************************************************)
MinerEntry(key) ==
  [key |-> key,
   label |-> IF key = "ufvk1" THEN "alice"
             ELSE IF key = "ufvk2" THEN "bob" ELSE "mallory"]

RECURSIVE SeqsUpTo(_, _)
SeqsUpTo(S, n) ==
  IF n = 0 THEN {<<>>}
  ELSE LET shorter == SeqsUpTo(S, n - 1)
       IN shorter \cup {Append(s, x) : s \in shorter, x \in S}

\* the miner lists compute_statistics is given: MinerStatsConfig::from_file
\* rejects an empty ufvks list; every list of decoding keys, and two lists
\* with a key that does not decode
MinerLists ==
  (SeqsUpTo({MinerEntry(k) : k \in {j \in Keys : Decodes(j)}}, MaxMiners) \ {<<>>})
  \cup { <<MinerEntry("garbage")>>,
         <<MinerEntry("ufvk1"), MinerEntry("garbage")>> }

\* the miner lists of the configurations the runs are started with
RunMinerLists ==
  { <<MinerEntry("ufvk1"), MinerEntry("ufvk2")>>,
    <<MinerEntry("ufvk2"), MinerEntry("garbage")>> }

(***************************************************************************)
(* State.                                                                  *)
(***************************************************************************)
VARIABLES
  run,         \* number of the current run of the program
  pc,          \* position of the main thread in `main`
  cfg,         \* MinerStatsConfig: start_height and miners
  nodeTip,     \* what the node answers to getblockcount
  tip_height,  \* main's local tip_height (-1: not yet assigned)
  cache,       \* main's local BlockCache
  file,        \* contents of cfg.cache_file
  missing,     \* main's local `missing`
  workers,     \* per missing height: progress of fetch_block, the hash
               \* getblockhash returned, the hash given to getblock, the result
  report,      \* main's local report
  reportFile,  \* contents of cfg.output_file
  loaded,      \* history: the cache BlockCache::load returned and the file it read
  prev,        \* history: how the previous run ended
  fetchCalls,  \* history: fetch_block calls of this run, per height
  saves        \* history: successful BlockCache::save calls of this run

vars == <<heightBase, run, pc, cfg, nodeTip, tip_height, cache, file, missing, workers,
          report, reportFile, loaded, prev, fetchCalls, saves>>

NoFetchCalls == [h \in 0..MaxTip |-> 0]

NotLoaded == [done |-> FALSE, cache |-> EmptyCache, file |-> AbsentFile]

NoPrev == [pc |-> "none", cfg |-> [start_height |-> 0, miners |-> <<>>],
           nodeTip |-> 0, reportFile |-> AbsentFile]

Init ==
  /\ heightBase = 0
  /\ run = 1
  /\ pc = "load"
  /\ cfg \in [start_height : 0..MaxStart, miners : RunMinerLists]
  /\ nodeTip \in 0..MaxTip
  /\ tip_height = -1
  /\ cache = EmptyCache
  /\ file = AbsentFile
  /\ missing = {}
  /\ workers = <<>>
  /\ report = NoReport
  /\ reportFile = AbsentFile
  /\ loaded = NotLoaded
  /\ prev = NoPrev
  /\ fetchCalls = NoFetchCalls
  /\ saves = 0

(***************************************************************************)
(* main                                                                    *)
(***************************************************************************)
\* BlockCache::load: Ok
Load ==
  /\ pc = "load"
  /\ file.state # "corrupt"
  /\ cache' = IF file.state = "absent" THEN EmptyCache ELSE Deserialize(file.data)
  /\ loaded' = [done |-> TRUE, cache |-> cache', file |-> file]
  /\ pc' = "tip"
  /\ UNCHANGED <<heightBase, run, cfg, nodeTip, tip_height, file, missing, workers,
                 report, reportFile, prev, fetchCalls, saves>>

\* BlockCache::load: the file does not parse
LoadCorrupt ==
  /\ pc = "load"
  /\ file.state = "corrupt"
  /\ pc' = "failed"
  /\ UNCHANGED <<heightBase, run, cfg, nodeTip, tip_height, cache, file, missing, workers,
                 report, reportFile, loaded, prev, fetchCalls, saves>>

\* mutant of Missing: the range starts at height 0 whatever start_height is
MissingFromGenesis(start, tip, blocks) == HeightRange(0, tip) \ DOMAIN blocks

\* mutant of Missing: the range stops one short of the tip
MissingBelowTip(start, tip, blocks) == HeightRange(start, tip - 1) \ DOMAIN blocks

\* mutant of Missing: every height of the range is fetched again
MissingAll(start, tip, blocks) == HeightRange(start, tip)

\* heights.iter().copied().filter(|h| !cache.blocks.contains_key(h))
Missing(start, tip, blocks) == HeightRange(start, tip) \ DOMAIN blocks

\* mutant of BlockCount: the cache is saved on every run
BlockCountAlwaysSave ==
  /\ pc = "tip"
  /\ tip_height' = nodeTip
  /\ IF nodeTip < cfg.start_height
     THEN /\ pc' = "failed"
          /\ UNCHANGED <<cache, missing, workers>>
     ELSE LET m == HeightRange(cfg.start_height, nodeTip) \ DOMAIN cache.blocks IN
          /\ missing' = m
          /\ IF m # {}
             THEN /\ pc' = "fetch"
                  /\ workers' = [h \in m |-> [st |-> "pending", hash |-> <<"", h>>,
                                             asked |-> <<"", h>>, outputs |-> <<>>]]
                  /\ cache' = cache
             ELSE /\ pc' = "save"
                  /\ cache' = [cache EXCEPT !.last_tip = Some(nodeTip)]
                  /\ workers' = workers
  /\ UNCHANGED <<heightBase, run, cfg, nodeTip, file, report, reportFile, loaded, prev,
                 fetchCalls, saves>>

\* mutant of BlockCount: without a missing height the cache is left alone,
\* whatever last_tip holds
BlockCountNoTipUpdate ==
  /\ pc = "tip"
  /\ tip_height' = nodeTip
  /\ IF nodeTip < cfg.start_height
     THEN /\ pc' = "failed"
          /\ UNCHANGED <<cache, missing, workers>>
     ELSE LET m == Missing(cfg.start_height, nodeTip, cache.blocks) IN
          /\ missing' = m
          /\ IF m # {}
             THEN /\ pc' = "fetch"
                  /\ workers' = [h \in m |-> [st |-> "pending", hash |-> <<"", h>>,
                                             asked |-> <<"", h>>, outputs |-> <<>>]]
                  /\ cache' = cache
             ELSE /\ pc' = "stats"
                  /\ UNCHANGED <<cache, workers>>
  /\ UNCHANGED <<heightBase, run, cfg, nodeTip, file, report, reportFile, loaded, prev,
                 fetchCalls, saves>>

\* mutant of BlockCount: the check of the tip against start_height is missing
BlockCountNoRangeCheck ==
  /\ pc = "tip"
  /\ tip_height' = nodeTip
  /\ LET m == Missing(cfg.start_height, nodeTip, cache.blocks) IN
     /\ missing' = m
     /\ IF m # {}
        THEN /\ pc' = "fetch"
             /\ workers' = [h \in m |-> [st |-> "pending", hash |-> <<"", h>>,
                                        asked |-> <<"", h>>, outputs |-> <<>>]]
             /\ cache' = cache
        ELSE IF cache.last_tip # Some(nodeTip)
        THEN /\ pc' = "save"
             /\ cache' = [cache EXCEPT !.last_tip = Some(nodeTip)]
             /\ workers' = workers
        ELSE /\ pc' = "stats"
             /\ UNCHANGED <<cache, workers>>
  /\ UNCHANGED <<heightBase, run, cfg, nodeTip, file, report, reportFile, loaded, prev,
                 fetchCalls, saves>>

\* client.block_count() succeeds; range check; `missing`; choice of branch
BlockCount ==
  /\ pc = "tip"
  /\ tip_height' = nodeTip
  /\ IF nodeTip < cfg.start_height
     THEN /\ pc' = "failed"
          /\ UNCHANGED <<cache, missing, workers>>
     ELSE LET m == Missing(cfg.start_height, nodeTip, cache.blocks) IN
          /\ missing' = m
          /\ IF m # {}
             THEN /\ pc' = "fetch"
                  /\ workers' = [h \in m |-> [st |-> "pending", hash |-> <<"", h>>,
                                             asked |-> <<"", h>>, outputs |-> <<>>]]
                  /\ cache' = cache
             ELSE IF cache.last_tip # Some(nodeTip)
             THEN /\ pc' = "save"
                  /\ cache' = [cache EXCEPT !.last_tip = Some(nodeTip)]
                  /\ workers' = workers
             ELSE /\ pc' = "stats"
                  /\ UNCHANGED <<cache, workers>>
  /\ UNCHANGED <<heightBase, run, cfg, nodeTip, file, report, reportFile, loaded, prev,
                 fetchCalls, saves>>

\* client.block_count() fails
BlockCountFail ==
  /\ pc = "tip"
  /\ pc' = "failed"
  /\ UNCHANGED <<heightBase, run, cfg, nodeTip, tip_height, cache, file, missing, workers,
                 report, reportFile, loaded, prev, fetchCalls, saves>>

(***************************************************************************)
(* The fetch workers: missing.par_iter().map(fetch_block).collect()        *)
(***************************************************************************)
\* fetch_block(h) starts: getblockhash succeeds
GetBlockHash(h) ==
  /\ pc = "fetch"
  /\ h \in DOMAIN workers
  /\ workers[h].st = "pending"
  /\ \E hash \in Hashes(h) :
       workers' = [workers EXCEPT ![h] = [@ EXCEPT !.st = "hash", !.hash = hash]]
  /\ fetchCalls' = [fetchCalls EXCEPT ![h] = @ + 1]
  /\ UNCHANGED <<heightBase, run, pc, cfg, nodeTip, tip_height, cache, file, missing,
                 report, reportFile, loaded, prev, saves>>

\* fetch_block(h) starts: getblockhash fails, no getblock is issued
GetBlockHashFail(h) ==
  /\ pc = "fetch"
  /\ h \in DOMAIN workers
  /\ workers[h].st = "pending"
  /\ workers' = [workers EXCEPT ![h] = [@ EXCEPT !.st = "err"]]
  /\ fetchCalls' = [fetchCalls EXCEPT ![h] = @ + 1]
  /\ UNCHANGED <<heightBase, run, pc, cfg, nodeTip, tip_height, cache, file, missing,
                 report, reportFile, loaded, prev, saves>>

\* mutant of GetBlock: the worker inserts its block into the cache itself
GetBlockStreaming(h) ==
  /\ pc = "fetch"
  /\ h \in DOMAIN workers
  /\ workers[h].st = "hash"
  /\ LET outputs == coinbase_outputs(NodeBlock(workers[h].hash)) IN
       /\ workers' = [workers EXCEPT ![h] =
                        [@ EXCEPT !.st = "ok", !.asked = workers[h].hash,
                                  !.outputs = outputs]]
       /\ cache' = [cache EXCEPT !.blocks =
                      [g \in (DOMAIN cache.blocks \cup {h}) |->
                         IF g = h
                         THEN [height |-> h, hash |-> workers[h].hash,
                               outputs |-> outputs]
                         ELSE cache.blocks[g]]]
  /\ UNCHANGED <<heightBase, run, pc, cfg, nodeTip, tip_height, file, missing,
                 report, reportFile, loaded, prev, fetchCalls, saves>>

\* getblock(hash, 2) succeeds: fetch_block returns the CachedBlock
GetBlock(h) ==
  /\ pc = "fetch"
  /\ h \in DOMAIN workers
  /\ workers[h].st = "hash"
  /\ LET block == NodeBlock(workers[h].hash) IN
       workers' = [workers EXCEPT ![h] =
                     [@ EXCEPT !.st = "ok", !.asked = workers[h].hash,
                               !.outputs = coinbase_outputs(block)]]
  /\ UNCHANGED <<heightBase, run, pc, cfg, nodeTip, tip_height, cache, file, missing,
                 report, reportFile, loaded, prev, fetchCalls, saves>>

\* getblock(hash, 2) fails
GetBlockFail(h) ==
  /\ pc = "fetch"
  /\ h \in DOMAIN workers
  /\ workers[h].st = "hash"
  /\ workers' = [workers EXCEPT ![h] =
                   [@ EXCEPT !.st = "err", !.asked = workers[h].hash]]
  /\ UNCHANGED <<heightBase, run, pc, cfg, nodeTip, tip_height, cache, file, missing,
                 report, reportFile, loaded, prev, fetchCalls, saves>>

\* collecting into a Result stops handing out items once an error is seen:
\* a height whose fetch has not started may never be fetched
Skip(h) ==
  /\ pc = "fetch"
  /\ h \in DOMAIN workers
  /\ workers[h].st = "pending"
  /\ \E g \in DOMAIN workers : workers[g].st = "err"
  /\ workers' = [workers EXCEPT ![h] = [@ EXCEPT !.st = "skipped"]]
  /\ UNCHANGED <<heightBase, run, pc, cfg, nodeTip, tip_height, cache, file, missing,
                 report, reportFile, loaded, prev, fetchCalls, saves>>

\* collect() has returned: every worker is finished
AllJoined == \A h \in DOMAIN workers : workers[h].st \in {"ok", "err", "skipped"}

\* the CachedBlock fetch_block(h) returned
Fetched(h) == [height |-> h, hash |-> workers[h].hash, outputs |-> workers[h].outputs]

\* for block in fetched { cache.blocks.insert(block.height, block) }
MergeBlocks(blocks, batch) ==
  [h \in (DOMAIN blocks \cup batch) |-> IF h \in batch THEN Fetched(h) ELSE blocks[h]]

\* mutant of Merge: the blocks that were fetched are merged although another
\* fetch of the batch failed
MergePartial ==
  /\ pc = "fetch"
  /\ AllJoined
  /\ cache' = [last_tip |-> Some(tip_height),
               blocks |-> MergeBlocks(cache.blocks,
                            {h \in DOMAIN workers : workers[h].st = "ok"})]
  /\ pc' = "save"
  /\ UNCHANGED <<heightBase, run, cfg, nodeTip, tip_height, file, missing, workers,
                 report, reportFile, loaded, prev, fetchCalls, saves>>

\* `fetched?` is Ok: merge the batch and set last_tip
Merge ==
  /\ pc = "fetch"
  /\ AllJoined
  /\ \A h \in DOMAIN workers : workers[h].st = "ok"
  /\ cache' = [last_tip |-> Some(tip_height),
               blocks |-> MergeBlocks(cache.blocks, DOMAIN workers)]
  /\ pc' = "save"
  /\ UNCHANGED <<heightBase, run, cfg, nodeTip, tip_height, file, missing, workers,
                 report, reportFile, loaded, prev, fetchCalls, saves>>

\* `fetched?` is Err: main returns the error
FetchFailed ==
  /\ pc = "fetch"
  /\ AllJoined
  /\ \E h \in DOMAIN workers : workers[h].st = "err"
  /\ pc' = "failed"
  /\ UNCHANGED <<heightBase, run, cfg, nodeTip, tip_height, cache, file, missing, workers,
                 report, reportFile, loaded, prev, fetchCalls, saves>>

\* cache.save(&cfg.cache_file) succeeds
Save ==
  /\ pc = "save"
  /\ file' = OkFile(Serialize(cache))
  /\ saves' = saves + 1
  /\ pc' = "stats"
  /\ UNCHANGED <<heightBase, run, cfg, nodeTip, tip_height, cache, missing, workers,
                 report, reportFile, loaded, prev, fetchCalls>>

\* cache.save fails: fs::write left the file as it was or truncated it
SaveFail ==
  /\ pc = "save"
  /\ file' \in {file, CorruptFile}
  /\ pc' = "failed"
  /\ UNCHANGED <<heightBase, run, cfg, nodeTip, tip_height, cache, missing, workers,
                 report, reportFile, loaded, prev, fetchCalls, saves>>

\* compute_statistics returns Ok
Stats ==
  /\ pc = "stats"
  /\ LET r == compute_statistics(cfg, cache.blocks, tip_height) IN
       /\ r.ok
       /\ report' = r
  /\ pc' = "write"
  /\ UNCHANGED <<heightBase, run, cfg, nodeTip, tip_height, cache, file, missing, workers,
                 reportFile, loaded, prev, fetchCalls, saves>>

\* compute_statistics returns the key decode error
StatsFail ==
  /\ pc = "stats"
  /\ ~compute_statistics(cfg, cache.blocks, tip_height).ok
  /\ pc' = "failed"
  /\ UNCHANGED <<heightBase, run, cfg, nodeTip, tip_height, cache, file, missing, workers,
                 report, reportFile, loaded, prev, fetchCalls, saves>>

\* report.write(&cfg.output_file) succeeds
WriteReport ==
  /\ pc = "write"
  /\ reportFile' = OkFile(SerializeReport(report))
  /\ pc' = "done"
  /\ UNCHANGED <<heightBase, run, cfg, nodeTip, tip_height, cache, file, missing, workers,
                 report, loaded, prev, fetchCalls, saves>>

\* report.write fails
WriteReportFail ==
  /\ pc = "write"
  /\ reportFile' \in {reportFile, CorruptFile}
  /\ pc' = "failed"
  /\ UNCHANGED <<heightBase, run, cfg, nodeTip, tip_height, cache, file, missing, workers,
                 report, loaded, prev, fetchCalls, saves>>

\* the process has exited; it is started again, possibly after the node's tip
\* or the configured start height changed
NextRun ==
  /\ pc \in {"done", "failed"}
  /\ run < MaxRuns
  /\ run' = run + 1
  /\ prev' = [pc |-> pc, cfg |-> cfg, nodeTip |-> nodeTip, reportFile |-> reportFile]
  /\ nodeTip' \in 0..MaxTip
  /\ \E s \in 0..MaxStart : cfg' = [cfg EXCEPT !.start_height = s]
  /\ pc' = "load"
  /\ tip_height' = -1
  /\ cache' = EmptyCache
  /\ loaded' = NotLoaded
  /\ missing' = {}
  /\ workers' = <<>>
  /\ report' = NoReport
  /\ fetchCalls' = NoFetchCalls
  /\ saves' = 0
  /\ UNCHANGED <<heightBase, file, reportFile>>

Next ==
  \/ Load
  \/ LoadCorrupt
  \/ BlockCount
  \/ BlockCountFail
  \/ \E h \in 0..MaxTip : GetBlockHash(h)
  \/ \E h \in 0..MaxTip : GetBlockHashFail(h)
  \/ \E h \in 0..MaxTip : GetBlock(h)
  \/ \E h \in 0..MaxTip : GetBlockFail(h)
  \/ \E h \in 0..MaxTip : Skip(h)
  \/ Merge
  \/ FetchFailed
  \/ Save
  \/ SaveFail
  \/ Stats
  \/ StatsFail
  \/ WriteReport
  \/ WriteReportFail
  \/ NextRun

Spec == Init /\ [][Next]_vars

(***************************************************************************)
(* compute_statistics on its own: the run has reached the statistics step  *)
(* with any complete cache of the range and any miner list.                *)
(***************************************************************************)
Out(value, addresses) == [value_zat |-> value, addresses |-> addresses]

\* output lists of the cached blocks: value_zat is an i64 and the address
\* list a Vec<String> (empty, repeated and shared addresses included)
StatOutputs ==
  { <<>>,
    << Out(3, <<"addrA">>) >>,
    << Out(3, <<"addrA">>), Out(2, <<"addrB">>) >>,
    << Out(2, <<"addrA", "addrB">>), Out(1, <<"addrC">>) >>,
    << Out(3, <<"addrB">>), Out(-3, <<"addrB", "addrB">>), Out(4, <<>>) >>,
    << Out(0, <<"addrA">>), Out(5, <<"addrC">>) >> }

StatCaches(start, tip) ==
  { [last_tip |-> Some(tip),
     blocks |-> [h \in HeightRange(start, tip) |->
                   [height |-> h, hash |-> <<"X", h>>, outputs |-> o[h]]]] :
      o \in [HeightRange(start, tip) -> StatOutputs] }

\* The worked example: range 100..102, one configured miner, block 100 paying
\* 500000000 to the miner's address at that height, block 101 with no tracked
\* outputs, block 102 paying 300000000 to somebody else.
ScenarioConfig ==
  [start_height |-> 100, miners |-> <<[key |-> "ufvk2", label |-> "M"]>>]

ScenarioOutputs(h) ==
  IF h = 100 THEN <<Out(500000000, <<"addrA">>)>>
  ELSE IF h = 102 THEN <<Out(300000000, <<"addrB">>)>>
  ELSE <<>>

ScenarioCache ==
  [last_tip |-> Some(102),
   blocks |-> [h \in HeightRange(100, 102) |->
                 [height |-> h, hash |-> <<"X", h>>,
                  outputs |-> ScenarioOutputs(h)]]]

\* A longer range, where the share of a miner is an exact tie between two
\* hundredths: 160 heights, 0..159, of which the 23 odd ones below 46 pay
\* the one configured miner (23 / 160 = 14.375%).
TieConfig == [start_height |-> 0, miners |-> <<MinerEntry("ufvk1")>>]

TieOutputs(h) ==
  IF h % 2 = 1 /\ h < 46 THEN <<Out(5, <<"addrA">>)>> ELSE <<Out(5, <<"addrC">>)>>

TieCache ==
  [last_tip |-> Some(159),
   blocks |-> [h \in HeightRange(0, 159) |->
                 [height |-> h, hash |-> <<"X", h>>, outputs |-> TieOutputs(h)]]]

InitStats ==
  /\ run = 1
  /\ pc = "stats"
  /\ \/ /\ heightBase \in {0, IndexLimit - 1}
        /\ cfg \in [start_height : 0..MaxStart, miners : MinerLists]
        /\ nodeTip \in cfg.start_height..MaxTip
        /\ cache \in StatCaches(cfg.start_height, nodeTip)
     \/ /\ heightBase = 0
        /\ cfg = ScenarioConfig
        /\ nodeTip = 102
        /\ cache = ScenarioCache
     \/ /\ heightBase = 0
        /\ cfg = TieConfig
        /\ nodeTip = 159
        /\ cache = TieCache
  /\ tip_height = nodeTip
  /\ file = OkFile(Serialize(cache))
  /\ missing = {}
  /\ workers = <<>>
  /\ report = NoReport
  /\ reportFile = AbsentFile
  /\ loaded = [done |-> TRUE, cache |-> cache, file |-> file]
  /\ prev = NoPrev
  /\ fetchCalls = NoFetchCalls
  /\ saves = 0

NextStats ==
  \/ Stats
  \/ StatsFail
  \/ WriteReport
  \/ WriteReportFail

SpecStats == InitStats /\ [][NextStats]_vars

TypeOK ==
  /\ run \in 1..MaxRuns
  /\ pc \in {"load", "tip", "fetch", "save", "stats", "write", "done", "failed"}
  /\ file.state \in {"absent", "ok", "corrupt"}
  /\ saves \in 0..1

(***************************************************************************)
(* Properties of the fetch stage and the cache (specification Spec).       *)
(***************************************************************************)
\* the heights the cache file holds, if it parses
FileKeys == IF file.state = "ok" THEN DOMAIN Deserialize(file.data).blocks ELSE {}

SomeFetchFailed == \E h \in DOMAIN workers : workers[h].st = "err"

SomeFetchSucceeded == \E h \in DOMAIN workers : workers[h].st = "ok"

\* C1: atomic batch failure.  Once one fetch of the batch has failed, in every
\* interleaving and up to the end of the run, the in-memory cache is the
\* loaded cache and the cache file is the file the run found: neither holds
\* one of the missing heights, last_tip is unchanged and no save was made.
C1_AtomicBatchFailure ==
  SomeFetchFailed =>
    /\ pc \in {"fetch", "failed"}
    /\ cache = loaded.cache
    /\ cache.last_tip = loaded.cache.last_tip
    /\ DOMAIN cache.blocks \cap missing = {}
    /\ file = loaded.file
    /\ FileKeys \cap missing = {}
    /\ saves = 0

\* a run of two or more missing heights ended with one fetch failed and
\* another succeeded
C1_Witness ==
  /\ pc = "failed"
  /\ Cardinality(missing) >= 2
  /\ SomeFetchFailed
  /\ SomeFetchSucceeded

\* C2: join barrier before merge.  While a worker of the batch has not
\* finished, the cache holds no height of the batch; the cache and the cache
\* file hold either none or all of the batch, never a proper part of it.
C2_JoinBarrier ==
  /\ ~AllJoined => (DOMAIN cache.blocks \cap missing = {} /\ cache = loaded.cache)
  /\ DOMAIN cache.blocks \cap missing \in {{}, missing}
  /\ FileKeys \cap missing \in {{}, missing}

\* one worker has returned its block while another is still running
C2_Witness ==
  /\ pc = "fetch"
  /\ SomeFetchSucceeded
  /\ \E h \in DOMAIN workers : workers[h].st \in {"pending", "hash"}

\* C3: successful refresh completeness.  From the statistics step on, every
\* height of [start_height, tip] is a key of the cache, last_tip is the tip
\* this run observed, and the cache file parses to the in-memory cache.
C3_RefreshComplete ==
  pc \in {"stats", "write", "done"} =>
    /\ tip_height = nodeTip
    /\ HeightRange(cfg.start_height, tip_height) \subseteq DOMAIN cache.blocks
    /\ cache.last_tip = Some(tip_height)
    /\ file.state = "ok"
    /\ Deserialize(file.data) = cache

\* a run that found some heights cached and fetched the others reached the
\* statistics step
C3_Witness ==
  /\ pc = "stats"
  /\ missing # {}
  /\ DOMAIN loaded.cache.blocks \cap HeightRange(cfg.start_height, tip_height) # {}

\* C4: cached blocks are immutable.  Every height the loaded cache held is
\* still a key of the in-memory cache with the same record, at every point
\* of the run and however it ends; the same holds of the cache file as long
\* as it parses.
C4_CachedBlocksImmutable ==
  loaded.done =>
    /\ \A h \in DOMAIN loaded.cache.blocks :
         h \in DOMAIN cache.blocks /\ cache.blocks[h] = loaded.cache.blocks[h]
    /\ file.state = "ok" =>
         \A h \in DOMAIN loaded.cache.blocks :
           /\ h \in FileKeys
           /\ Deserialize(file.data).blocks[h] = loaded.cache.blocks[h]

\* a run that loaded a block of one fork merged and saved new blocks while
\* the node had moved to the other fork
C4_Witness ==
  /\ pc = "stats"
  /\ saves = 1
  /\ \E h \in DOMAIN loaded.cache.blocks, g \in missing :
       loaded.cache.blocks[h].hash[1] # cache.blocks[g].hash[1]

\* the loaded cache holds the whole range and its last_tip is the node's tip
LoadedComplete ==
  /\ loaded.done
  /\ nodeTip >= cfg.start_height
  /\ HeightRange(cfg.start_height, nodeTip) \subseteq DOMAIN loaded.cache.blocks
  /\ loaded.cache.last_tip = Some(nodeTip)

\* this run follows a successful run with the same configuration and tip
SameAsPrev == prev.pc = "done" /\ prev.cfg = cfg /\ prev.nodeTip = nodeTip

\* C5: idempotence.  A run that finds the cache complete with last_tip = tip
\* calls fetch_block for no height and does not write the cache file; when
\* it follows a successful run with the same configuration and the same node
\* tip, the cache it loads is complete and the report file it writes is the
\* one the previous run wrote.
C5_Idempotence ==
  /\ LoadedComplete =>
       /\ fetchCalls = NoFetchCalls
       /\ saves = 0
       /\ file = loaded.file
       /\ pc \notin {"fetch", "save"}
  /\ (SameAsPrev /\ loaded.done) => LoadedComplete
  /\ (SameAsPrev /\ pc = "done") => reportFile = prev.reportFile

\* the second of two successful runs with an unchanged configuration and tip
\* has written a report with a matched block
C5_Witness ==
  /\ run = 2
  /\ SameAsPrev
  /\ pc = "done"
  /\ report.total_mined_blocks >= 1

(***************************************************************************)
(* Properties of compute_statistics (specification SpecStats).  The        *)
(* quantities of the claims are defined here from the cache, independently *)
(* of the loops of compute_statistics.                                     *)
(***************************************************************************)
\* compute_statistics has just returned Ok(report) to main; the report is
\* not changed afterwards
Returned == pc = "write" /\ report.ok

MinerIdx == 1..Len(cfg.miners)

\* the heights of the range that have a cached block
InRange == HeightRange(cfg.start_height, tip_height) \cap DOMAIN cache.blocks

\* the outputs of the block at h that list the address of miner i at h
MatchingOutputs(i, h) ==
  IF ~FromIndexOk(h) THEN {}
  ELSE LET outs == cache.blocks[h].outputs
       IN {k \in 1..Len(outs) :
             DeriveAddress(cfg.miners[i].key, h) \in Range(outs[k].addresses)}

\* matched_value of miner i at height h
MinerValueAt(i, h) ==
  LET outs == cache.blocks[h].outputs
  IN SumOver([k \in MatchingOutputs(i, h) |-> outs[k].value_zat], MatchingOutputs(i, h))

\* miner i matches height h
MatchedBy(i, h) == MinerValueAt(i, h) > 0

\* the heights matched by at least one miner
MatchedHeights == {h \in InRange : \E i \in MinerIdx : MatchedBy(i, h)}

\* coinbase_total(h)
CoinbaseTotalAt(h) ==
  LET outs == cache.blocks[h].outputs
  IN SumOver([k \in 1..Len(outs) |-> outs[k].value_zat], 1..Len(outs))

\* the largest matched value of a miner at h
MaxMinerValueAt(h) ==
  CHOOSE v \in {MinerValueAt(i, h) : i \in MinerIdx} :
    \A i \in MinerIdx : MinerValueAt(i, h) <= v

\* a height is matched by two miners
Overlap == \E h \in InRange : \E i, j \in MinerIdx : i # j /\ MatchedBy(i, h) /\ MatchedBy(j, h)

Perms(n) == {f \in [1..n -> 1..n] : \A a, b \in 1..n : f[a] = f[b] => a = b}

\* C6: matching is order-independent.  For every permutation of the miner
\* list (all keys decoding), compute_statistics gives the same
\* total_mined_blocks and unmatched value, and every miner's aggregate and
\* detail summary is the one it had, at its new position.
C6_OrderIndependent ==
  Returned =>
    \A f \in Perms(Len(cfg.miners)) :
      LET permuted == [i \in MinerIdx |-> cfg.miners[f[i]]]
          r == compute_statistics([cfg EXCEPT !.miners = permuted],
                                  cache.blocks, tip_height)
      IN /\ r.ok
         /\ r.total_mined_blocks = report.total_mined_blocks
         /\ r.unmatched.total_value_zat = report.unmatched.total_value_zat
         /\ \A i \in MinerIdx :
              /\ r.miners[i] = report.miners[f[i]]
              /\ r.detailed_miners[i] = report.detailed_miners[f[i]]

\* two miners with different keys match the same height
C6_Witness ==
  /\ Returned
  /\ \E h \in InRange : \E i, j \in MinerIdx :
       /\ cfg.miners[i].key # cfg.miners[j].key
       /\ MatchedBy(i, h)
       /\ MatchedBy(j, h)

\* C7: max-not-sum dedup.  block_totals holds, for exactly the matched
\* heights, the largest matched value of a miner at that height; the global
\* matched value (total_value - unmatched value) is their sum; each miner's
\* total_value is the sum of its matched values over the heights it matched;
\* the miners' totals add up to at least the global matched value, and to
\* exactly it when no height is matched by two miners.
C7_MaxNotSum ==
  Returned =>
    LET block_totals == MinerPass(cfg, cache.blocks, tip_height).block_totals
        matched_total == report.total_value_zat - report.unmatched.total_value_zat
        miner_totals == SumOver([i \in MinerIdx |-> report.miners[i].total_value_zat],
                                MinerIdx)
    IN /\ DOMAIN block_totals = MatchedHeights
       /\ \A h \in MatchedHeights : block_totals[h] = MaxMinerValueAt(h)
       /\ matched_total = SumOver([h \in MatchedHeights |-> MaxMinerValueAt(h)],
                                  MatchedHeights)
       /\ \A i \in MinerIdx :
            LET mine == {h \in InRange : MatchedBy(i, h)}
            IN report.detailed_miners[i].total_value_zat =
                 SumOver([h \in mine |-> MinerValueAt(i, h)], mine)
       /\ miner_totals >= matched_total
       /\ ~Overlap => miner_totals = matched_total

\* two miners match one height with different values
C7_Witness ==
  /\ Returned
  /\ \E h \in InRange : \E i, j \in MinerIdx :
       /\ MatchedBy(i, h)
       /\ MatchedBy(j, h)
       /\ MinerValueAt(i, h) < MinerValueAt(j, h)

\* C8: unmatched value accounting.  The unmatched value is the sum of the
\* full coinbase totals of exactly the heights no miner matched (a matched
\* height adds nothing, whatever its other outputs), and total_value is the
\* sum of block_totals over the matched heights plus the unmatched value.
C8_UnmatchedValue ==
  Returned =>
    LET unmatched == InRange \ MatchedHeights
    IN /\ report.unmatched.total_value_zat =
            SumOver([h \in unmatched |-> CoinbaseTotalAt(h)], unmatched)
       /\ report.total_value_zat =
            SumOver([h \in MatchedHeights |-> MaxMinerValueAt(h)], MatchedHeights)
            + report.unmatched.total_value_zat

\* a matched height has a positive output that matches no miner, and an
\* unmatched height has a positive coinbase total
C8_Witness ==
  /\ Returned
  /\ \E h \in MatchedHeights :
       \E k \in 1..Len(cache.blocks[h].outputs) :
         /\ cache.blocks[h].outputs[k].value_zat > 0
         /\ \A i \in MinerIdx : k \notin MatchingOutputs(i, h)
  /\ \E h \in InRange \ MatchedHeights : CoinbaseTotalAt(h) > 0

\* C9: block counting.  total_mined_blocks is the number of heights of the
\* range matched by at least one miner, unmatched.blocks is the number of
\* heights tip - start_height + 1 less total_mined_blocks, and the two add
\* up to the number of heights of the inclusive range.
C9_BlockCounting ==
  Returned =>
    LET total_heights == tip_height - cfg.start_height + 1
    IN /\ report.total_mined_blocks = Cardinality(MatchedHeights)
       /\ report.unmatched.blocks = total_heights - report.total_mined_blocks
       /\ report.total_mined_blocks + report.unmatched.blocks =
            Cardinality(HeightRange(cfg.start_height, tip_height))

\* a height is matched by two miners and another by none
C9_Witness ==
  /\ Returned
  /\ Overlap
  /\ InRange \ MatchedHeights # {}

\* the heights of the detail records of miner i, in order
DetailHeights(i) ==
  [k \in 1..Len(report.detailed_miners[i].detailed_blocks) |->
     report.detailed_miners[i].detailed_blocks[k].block_height]

\* s lists exactly the elements of S, each once
ListsOnce(s, S) == Range(s) = S /\ Len(s) = Cardinality(S)

\* C10 as stated: a detail record for exactly the heights where the miner's
\* address is listed by at least one output with a positive value.
C10_AsStated ==
  Returned =>
    \A i \in MinerIdx :
      /\ ListsOnce(DetailHeights(i),
           {h \in InRange : \E k \in MatchingOutputs(i, h) :
                              cache.blocks[h].outputs[k].value_zat > 0})
      /\ report.detailed_miners[i].matched_blocks = Len(DetailHeights(i))

\* C10: detail records.  For every miner, detailed_blocks holds exactly one
\* entry (height, the block's hash, the derived address) for each height of
\* the range where the values of the outputs listing the miner's derived
\* address sum to more than zero, and none for any other height;
\* matched_blocks is the number of these entries.
C10_DetailRecords ==
  Returned =>
    \A i \in MinerIdx :
      LET details == report.detailed_miners[i].detailed_blocks
      IN /\ ListsOnce(DetailHeights(i), {h \in InRange : MatchedBy(i, h)})
         /\ \A k \in 1..Len(details) :
              /\ details[k].block_hash = cache.blocks[details[k].block_height].hash
              /\ details[k].payout_address =
                   DeriveAddress(cfg.miners[i].key, details[k].block_height)
         /\ report.detailed_miners[i].matched_blocks = Len(details)
         /\ report.miners[i].matched_blocks = Len(details)

\* a miner has a detail record for one height and none for another height
\* where its address is listed by outputs whose values do not sum above zero
C10_Witness ==
  /\ Returned
  /\ \E i \in MinerIdx :
       /\ Len(report.detailed_miners[i].detailed_blocks) >= 1
       /\ \E h \in InRange : MatchingOutputs(i, h) # {} /\ ~MatchedBy(i, h)

\* C11: in the worked example (range 100..102, miner M whose address at height
\* 100 receives 500000000, nothing tracked at 101, 300000000 paid to another
\* address at 102) the report credits M with 1 matched block worth 500000000
\* zats (5.00 WEC, share 33.33%), counts 1 mined block, leaves 2 blocks and
\* 300000000 zats unmatched, and totals 800000000 zats.
ScenarioState ==
  /\ cfg = ScenarioConfig
  /\ tip_height = 102
  /\ cache.blocks = ScenarioCache.blocks
  /\ DeriveAddress(cfg.miners[1].key, 100) = "addrA"
  /\ DeriveAddress(cfg.miners[1].key, 102) # "addrB"

C11_Scenario ==
  (Returned /\ ScenarioState) =>
    /\ Len(report.miners) = 1
    /\ report.miners[1].matched_blocks = 1
    /\ report.miners[1].total_value_zat = 500000000
    /\ report.miners[1].total_value_wec = 500
    /\ report.miners[1].share_percent = 3333
    /\ report.total_mined_blocks = 1
    /\ report.unmatched.blocks = 2
    /\ report.unmatched.total_value_zat = 300000000
    /\ report.total_value_zat = 800000000

C11_Witness == Returned /\ ScenarioState

(***************************************************************************)
(* Error paths and the frame of a run (specification Spec).                *)
(***************************************************************************)
\* C12: range error.  In a run whose node tip is below start_height the run
\* never gets past the range check: no fetch is dispatched and no RPC for a
\* block is made, the in-memory cache stays the loaded cache, the cache file
\* is the file the run found (no save) and the report file is the one the
\* previous run left.
C12_RangeError ==
  nodeTip < cfg.start_height =>
    /\ pc \in {"load", "tip", "failed"}
    /\ missing = {}
    /\ workers = <<>>
    /\ fetchCalls = NoFetchCalls
    /\ saves = 0
    /\ report = NoReport
    /\ reportFile = prev.reportFile
    /\ loaded.done => (cache = loaded.cache /\ file = loaded.file)

C12_Witness ==
  /\ nodeTip < cfg.start_height
  /\ pc = "failed"
  /\ tip_height = nodeTip
  /\ DOMAIN loaded.cache.blocks # {}
  /\ reportFile.state = "ok"

\* the run is past block_count() and found every height of the range cached
NoneMissing ==
  /\ loaded.done
  /\ tip_height = nodeTip
  /\ nodeTip >= cfg.start_height
  /\ HeightRange(cfg.start_height, nodeTip) \subseteq DOMAIN loaded.cache.blocks

\* C13: tip-only update.  When no height of the range is missing nothing is
\* fetched and the blocks mapping stays the loaded one.  If the loaded
\* last_tip differs from the tip, last_tip becomes the tip and the cache is
\* saved: once the save returned, the file holds exactly the loaded blocks
\* with the new last_tip.  If the loaded last_tip equals the tip, the cache is
\* untouched and the cache file is never written.
C13_TipOnlyUpdate ==
  NoneMissing =>
    /\ pc \in {"save", "stats", "write", "done", "failed"}
    /\ fetchCalls = NoFetchCalls
    /\ workers = <<>>
    /\ cache.blocks = loaded.cache.blocks
    /\ loaded.cache.last_tip # Some(nodeTip) =>
         /\ cache = [loaded.cache EXCEPT !.last_tip = Some(nodeTip)]
         /\ (pc \in {"stats", "write", "done"} \/ saves = 1) =>
              /\ saves = 1
              /\ file = OkFile(Serialize([loaded.cache EXCEPT
                                            !.last_tip = Some(nodeTip)]))
    /\ loaded.cache.last_tip = Some(nodeTip) =>
         /\ pc # "save"
         /\ saves = 0
         /\ cache = loaded.cache
         /\ file = loaded.file

C13_Witness ==
  /\ NoneMissing
  /\ loaded.cache.last_tip # Some(nodeTip)
  /\ loaded.cache.last_tip.some
  /\ pc = "done"
  /\ saves = 1
  /\ file # loaded.file

(***************************************************************************)
(* Errors inside compute_statistics (specification SpecStats).             *)
(***************************************************************************)
\* the value of the outputs of the block at h that list the address the key
\* of miner i would have at h, whether or not h is a valid index
ListedValue(i, h) ==
  MatchedValue(cache.blocks[h].outputs, DeriveAddress(cfg.miners[i].key, h))

\* the heights of the range that are valid derivation indices and where some
\* miner is paid
DerivableMatched ==
  {h \in InRange : FromIndexOk(h) /\ \E i \in MinerIdx : ListedValue(i, h) > 0}

\* C14: non-fatal derivation skip.  With keys that decode, compute_statistics
\* returns a report also when the range holds heights from_index rejects: it
\* fails only on a key that does not decode.  A rejected height
\* gives no miner a count, a value or a detail record; every miner's figures
\* are those of the heights from_index accepts; and the rejected height is
\* not a mined block: it is counted as unmatched with its whole coinbase
\* total.
C14_DerivationSkip ==
  /\ (pc = "failed" /\ ~report.ok) =>
       \E i \in MinerIdx : ~Decodes(cfg.miners[i].key)
  /\ Returned =>
       /\ \A i \in MinerIdx :
            LET mine == {h \in InRange : FromIndexOk(h) /\ ListedValue(i, h) > 0}
            IN /\ Range(DetailHeights(i)) = mine
               /\ report.miners[i].matched_blocks = Cardinality(mine)
               /\ report.miners[i].total_value_zat =
                    SumOver([h \in mine |-> ListedValue(i, h)], mine)
       /\ report.total_mined_blocks = Cardinality(DerivableMatched)
       /\ report.unmatched.blocks =
            Len(Heights(cfg.start_height, tip_height)) - Cardinality(DerivableMatched)
       /\ report.unmatched.total_value_zat =
            SumOver([h \in InRange \ DerivableMatched |-> CoinbaseTotalAt(h)],
                    InRange \ DerivableMatched)

\* a miner is paid at a height from_index rejects and at one it accepts
C14_Witness ==
  /\ Returned
  /\ \E i \in MinerIdx : \E h, g \in InRange :
       /\ ~FromIndexOk(h)
       /\ ListedValue(i, h) > 0
       /\ CoinbaseTotalAt(h) > 0
       /\ FromIndexOk(g)
       /\ ListedValue(i, g) > 0

\* the configuration lists a key that does not decode
BadKey == \E i \in MinerIdx : ~Decodes(cfg.miners[i].key)

\* C15: a key that does not decode is fatal and leaves no partial report.
\* With such a key in the configuration compute_statistics returns the error,
\* so the run never holds a report and never reaches report.write: the report
\* file is the one the previous run left, also when the miners listed before
\* the bad key matched blocks.  A cache saved earlier in the run stays as
\* saved: the file still holds the merged cache after the run has failed.
C15_KeyDecodeFatal ==
  BadKey =>
    /\ pc \notin {"write", "done"}
    /\ report = NoReport
    /\ reportFile = prev.reportFile
    /\ pc = "stats" => ~compute_statistics(cfg, cache.blocks, tip_height).ok
    /\ saves = 1 =>
         /\ pc \in {"stats", "failed"}
         /\ file = OkFile(Serialize(cache))
         /\ Deserialize(file.data) = cache

\* the run merged and saved a batch, the first miner matched a block, the
\* second miner's key did not decode and the run has failed
C15_Witness ==
  /\ pc = "failed"
  /\ saves = 1
  /\ missing # {}
  /\ file = OkFile(Serialize(cache))
  /\ file # loaded.file
  /\ Len(cfg.miners) = 2
  /\ Decodes(cfg.miners[1].key)
  /\ ~Decodes(cfg.miners[2].key)
  /\ \E h \in InRange : ListedValue(1, h) > 0
  /\ report = NoReport

(***************************************************************************)
(* Shares and counts (specification SpecStats).                            *)
(***************************************************************************)
\* part / total * 100 rounded to two decimals, in hundredths of a percent;
\* 0 when total = 0
ExactShare(part, total) ==
  IF total = 0 THEN 0 ELSE RoundDiv(part * 10000, total)

TotalHeights == Len(Heights(cfg.start_height, tip_height))

\* C16: share percent.  Every miner's share_percent is its matched_blocks
\* over the number of heights of the range, times 100, rounded to two
\* decimals (and 0 for an empty range); the unmatched share is the same
\* function of unmatched.blocks.
C16_SharePercent ==
  Returned =>
    /\ \A i \in MinerIdx :
         report.miners[i].share_percent =
           ExactShare(report.miners[i].matched_blocks, TotalHeights)
    /\ report.unmatched.share_percent =
         ExactShare(report.unmatched.blocks, TotalHeights)

\* 23 of 160 heights matched: the report says 14.37%
C16_Witness ==
  /\ Returned
  /\ TotalHeights = 160
  /\ report.miners[1].matched_blocks = 23
  /\ report.miners[1].share_percent = 1437
  /\ ExactShare(23, 160) = 1438

(***************************************************************************)
(* The fetch batch and fetch_block (specification Spec).                   *)
(***************************************************************************)
\* the heights of [start_height, tip] that are not keys of the loaded cache
CacheDiff == HeightRange(cfg.start_height, nodeTip) \ DOMAIN loaded.cache.blocks

\* block_count() has returned and the range check has passed
PastRangeCheck == loaded.done /\ tip_height = nodeTip /\ nodeTip >= cfg.start_height

\* C17: the fetch set is exactly the cache diff.  Before the range check has
\* passed nothing is dispatched.  After it, the batch handed to the workers
\* is the set of heights of [start_height, tip] that are not keys of the
\* loaded cache; fetch_block is called at most once for a height, and only
\* for heights of that set (never a cached height, never one outside the
\* range); and in a run whose fetch stage succeeded it was called for every
\* height of the set.
C17_FetchSetIsCacheDiff ==
  /\ ~PastRangeCheck => (workers = <<>> /\ fetchCalls = NoFetchCalls)
  /\ PastRangeCheck =>
       /\ missing = CacheDiff
       /\ DOMAIN workers = CacheDiff
       /\ \A h \in DOMAIN fetchCalls :
            /\ fetchCalls[h] <= 1
            /\ fetchCalls[h] = 1 =>
                 /\ h \in CacheDiff
                 /\ h \notin DOMAIN loaded.cache.blocks
                 /\ h \in HeightRange(cfg.start_height, nodeTip)
       /\ pc \in {"save", "stats", "write", "done"} =>
            \A h \in CacheDiff : fetchCalls[h] = 1

\* a second run fetched the one missing height, with one height of the range
\* and one height below the range already cached
C17_Witness ==
  /\ PastRangeCheck
  /\ pc = "stats"
  /\ CacheDiff # {}
  /\ \A h \in CacheDiff : fetchCalls[h] = 1
  /\ \E h \in DOMAIN loaded.cache.blocks : h \in HeightRange(cfg.start_height, nodeTip)
  /\ \E h \in DOMAIN loaded.cache.blocks : h < cfg.start_height

\* the outputs fetch_block must record for a verbose block: those of its
\* first transaction, in order
IsFirstTxOutputs(outputs, block) ==
  IF Len(block.tx) = 0 THEN outputs = <<>>
  ELSE LET vout == block.tx[1].vout
       IN /\ Len(outputs) = Len(vout)
          /\ \A k \in 1..Len(vout) :
               /\ outputs[k].value_zat = vout[k].value_zat
               /\ vout[k].addresses.some => outputs[k].addresses = vout[k].addresses.v
               /\ ~vout[k].addresses.some => outputs[k].addresses = <<>>

\* C18: the protocol of fetch_block(h).  getblock is called only by a worker
\* whose getblockhash(h) succeeded, and with the hash that call returned.  A
\* worker whose getblockhash or getblock failed produces no block: nothing of
\* height h reaches the cache.  A worker that succeeded returns the record
\* (h, that hash, the outputs of the first transaction of the block the node
\* holds under that hash, with empty address lists where the node gave none,
\* and no outputs for a block without transactions), and that record is what
\* the merge stores under h.
C18_FetchBlockProtocol ==
  \A h \in DOMAIN workers :
    LET w == workers[h] IN
    /\ w.asked[1] # "" =>
         /\ w.st \in {"ok", "err"}
         /\ w.hash \in Hashes(h)
         /\ w.asked = w.hash
    /\ w.st \in {"pending", "hash", "skipped"} => (w.asked[1] = "" /\ w.outputs = <<>>)
    /\ w.st = "err" => (w.outputs = <<>> /\ h \notin DOMAIN cache.blocks)
    /\ w.st = "ok" =>
         /\ w.asked[1] # ""
         /\ Fetched(h).height = h
         /\ Fetched(h).hash = w.asked
         /\ IsFirstTxOutputs(Fetched(h).outputs, NodeBlock(w.asked))
    /\ pc \in {"save", "stats", "write", "done"} =>
         /\ w.st = "ok"
         /\ cache.blocks[h] = Fetched(h)
         /\ IsFirstTxOutputs(cache.blocks[h].outputs, NodeBlock(cache.blocks[h].hash))

\* a merged block whose verbose form has two transactions, the first with an
\* output without addresses, next to a merged block without transactions
C18_Witness ==
  /\ pc = "stats"
  /\ \E h \in DOMAIN workers :
       /\ Len(NodeBlock(workers[h].asked).tx) = 2
       /\ ~NodeBlock(workers[h].asked).tx[1].vout[1].addresses.some
       /\ cache.blocks[h].outputs = <<[value_zat |-> 2, addresses |-> <<>>]>>
  /\ \E h \in DOMAIN workers :
       /\ NodeBlock(workers[h].asked).tx = <<>>
       /\ cache.blocks[h].outputs = <<>>

\* the cached blocks whose height lies in [start_height, tip]
InRangeBlocks == [h \in InRange |-> cache.blocks[h]]

\* C19: the report depends only on the cached blocks of the range.  The
\* report a run returns, and the report file it writes, are the statistics of
\* the configuration, the tip and the cache cut down to the heights of
\* [start_height, tip]: entries left at other heights by an earlier run, and
\* the last_tip value the cache was loaded with, change no field of it.
C19_InRangeOnly ==
  (pc \in {"write", "done"} /\ report.ok) =>
    /\ report = compute_statistics(cfg, InRangeBlocks, tip_height)
    /\ pc = "done" => reportFile = OkFile(SerializeReport(report))

\* the cache holds a block with value below start_height, and was loaded
\* with a last_tip other than this run's tip
C19_Witness ==
  /\ pc = "done"
  /\ report.ok
  /\ \E h \in DOMAIN cache.blocks :
       h < cfg.start_height /\ OutputSum(cache.blocks[h].outputs) > 0
  /\ loaded.cache.last_tip.some
  /\ loaded.cache.last_tip # Some(tip_height)
  /\ report.unmatched.total_value_zat > 0

\* C20: count bounds.  In every report each miner's matched_blocks is at most
\* total_mined_blocks, which is at most the number of heights of the range,
\* and so is unmatched.blocks; hence every share_percent, of a miner or of
\* the unmatched blocks, lies between 0 and 100, also when several miners
\* match the same height.
C20_CountBounds ==
  Returned =>
    /\ \A i \in MinerIdx :
         /\ 0 <= report.miners[i].matched_blocks
         /\ report.miners[i].matched_blocks <= report.total_mined_blocks
         /\ 0 <= report.miners[i].share_percent
         /\ report.miners[i].share_percent <= 10000
    /\ report.total_mined_blocks <= TotalHeights
    /\ 0 <= report.unmatched.blocks
    /\ report.unmatched.blocks <= TotalHeights
    /\ 0 <= report.unmatched.share_percent
    /\ report.unmatched.share_percent <= 10000

\* two miners match the same height, every height of a range of at least two
\* is matched and one miner matches them all
C20_Witness ==
  /\ Returned
  /\ Overlap
  /\ TotalHeights >= 2
  /\ report.total_mined_blocks = TotalHeights
  /\ report.unmatched.share_percent = 0
  /\ \E i \in MinerIdx : report.miners[i].share_percent = 10000

====
